---------------------------- MODULE Spec2Model ----------------------------
(***************************************************************************)
(* whichscript: provenance tracking of output files.                       *)
(*                                                                         *)
(* tracker.py     caller identification, configuration, script snapshots,  *)
(*                the archive hook, save_output and the builtins.open      *)
(*                wrapper.                                                 *)
(* archiver.py    the zip bundle with its capped list of dependencies.     *)
(* open_script.py the lookup of the script to open for an output file.     *)
(*                                                                         *)
(* Paths are sequences of string pieces whose concatenation is the path:   *)
(* <<"/", "usr", "/lib/python3/", "runpy.py">> is /usr/lib/python3/runpy.py.*)
(* str.startswith is then a prefix test on pieces and the substring test   *)
(* "site-packages" in filename is membership of that piece.                *)
(***************************************************************************)
EXTENDS Integers, Sequences, FiniteSets, TLC

(***************************************************************************)
(* Bounds of the model.                                                    *)
(***************************************************************************)
MaxUserFrames == 3
MaxMods == 3
MaxSize == 2
MaxLimit == 2
MaxFilesArg == 2
MaxBytesArg == 3
MaxClock == 1
MaxVersion == 2
MaxWrites == 1
MaxToggles == 3
MaxOpens == 2

(***************************************************************************)
(* The state.                                                              *)
(***************************************************************************)
VARIABLES
    cfg,            \* tracker's module-level configuration (_cfg_*, _CFG_*)
    log_active,     \* tracker._log_active
    builtins_open,  \* what builtins.open is bound to
    skip_logging,   \* tracker._skip_logging
    outputs,        \* output files on disk: "absent", "empty" or "data"
    scripts,        \* script files on disk and their text
    sidecars,       \* snapshot sidecars on disk, by output and suffix
    metafiles,      \* the '<output>.metadata.json' sidecars on disk
    archives,       \* archive files on disk, by destination
    sys_modules,    \* sys.modules: the __file__ of each loaded module, in order
    dep_stat,       \* per module file: its size and whether it can be read
    now,            \* the wall clock, in whole seconds
    last,           \* what the last call of the tracker's API did and returned
    writes,         \* how many calls of open and save_output user code has made
    stack, found, caller_done,       \* a call of _find_calling_script
    arg_max_files, arg_max_bytes, arg_metadata, built,  \* a call of build_archive_for_output
    lookup_done, target, exit_code,  \* a run of open_script.main
    toggle_log,     \* the enable/disable calls made so far, oldest first
    th,             \* per thread: where it is in an intercepted open
    nested,         \* recordings triggered by the library's own file writes
    build_log       \* the archives built so far: destination and content

(***************************************************************************)
(* Paths.                                                                  *)
(***************************************************************************)
None == <<>>

Cwd == <<"/", "home/u/proj/">>
BasePrefix == <<"/", "usr">>
TrackerFile == <<"/", "home/u/src/whichscript/", "tracker.py">>
UserMain == <<"/", "home/u/proj/", "main.py">>
UserHelper == <<"/", "home/u/proj/", "helper.py">>
RelMain == <<"main.py">>
StdlibFile == <<"/", "usr", "/lib/python3/", "runpy.py">>
NearPrefixFile == <<"/", "usr", "2/jobs/", "job.py">>
SiteFile == <<"/", "home/u/venv/lib/", "site-packages", "/fakepkg/", "__init__.py">>
PseudoFile == <<"<", "stdin>">>

FrameFiles ==
    {UserMain, UserHelper, RelMain, StdlibFile, NearPrefixFile, SiteFile,
     PseudoFile, TrackerFile}

StartsWith(s, prefix) ==
    /\ Len(s) >= Len(prefix)
    /\ SubSeq(s, 1, Len(prefix)) = prefix

Contains(s, piece) == \E i \in 1..Len(s) : s[i] = piece

IsAbs(p) == Len(p) > 0 /\ p[1] = "/"

AbsPath(p) == IF IsAbs(p) THEN p ELSE Cwd \o p

Reverse(s) == [i \in 1..Len(s) |-> s[Len(s) + 1 - i]]

(***************************************************************************)
(* tracker._find_calling_script.  inspect.stack() lists the innermost      *)
(* frame first; the loop runs over reversed(inspect.stack()).              *)
(***************************************************************************)
RECURSIVE ScanFrames(_, _)
ScanFrames(frames, current_file) ==
    IF frames = <<>> THEN None
    ELSE LET raw_filename == Head(frames) IN
         IF raw_filename = current_file \/ StartsWith(raw_filename, <<"<">>)
         THEN ScanFrames(Tail(frames), current_file)
         ELSE LET filename == AbsPath(raw_filename) IN
              IF StartsWith(filename, BasePrefix) \/ Contains(filename, "site-packages")
              THEN ScanFrames(Tail(frames), current_file)
              ELSE filename

\* The walk the other way round, from the write outward: what the code would
\* do without reversed().
InnermostFirstOrder(frames) == frames

FrameOrder(frames) == Reverse(frames)

FindCallingScript(frames, current_file) ==
    ScanFrames(FrameOrder(frames), current_file)

\* The frames of the library itself that sit innermost on the stack when
\* _find_calling_script runs: its own frame and those of its callers.
LibFramesOpen == <<TrackerFile, TrackerFile, TrackerFile>>
LibFramesSave == <<TrackerFile, TrackerFile>>

(***************************************************************************)
(* Files and their contents.  A text is <<name, version>>; Absent is the   *)
(* content of a path that does not exist and Partial that of a file        *)
(* holding the first part of a copy.                                       *)
(***************************************************************************)
Absent == <<"absent", 0>>
Partial == <<"partial", 0>>

ScriptPaths == {UserMain, UserHelper}

ScriptName(p) == p[Len(p)]

ScriptTexts(p) == {<<ScriptName(p), v>> : v \in 1..MaxVersion}

Exists(text) == text # Absent

OutputExists(content) == content # "absent"

OutA == [dir |-> "out1/", name |-> "a.txt"]
OutB == [dir |-> "out2/", name |-> "a.txt"]
Outputs == {OutA, OutB}

\* The sidecar paths the code forms from an output path.
SuffixScriptPy == ".script.py"
SuffixScript == ".script"
SuffixTmp == ".script.py.tmp"
SnapshotSuffixes == {SuffixScriptPy, SuffixScript, SuffixTmp}

\* A metadata dict as tracker builds it (None when metadata is off).
NoMetadata == [present |-> FALSE, script_path |-> None, open_params |-> FALSE]

Metadata(calling_script, with_params) ==
    [present |-> TRUE, script_path |-> calling_script, open_params |-> with_params]

(***************************************************************************)
(* archiver.py                                                             *)
(***************************************************************************)
DepA == <<"/", "home/u/proj/", "dep_a.py">>
DepB == <<"/", "home/u/proj/", "dep_b.py">>
DepC == <<"/", "home/u/proj/", "pkg/", "dep_c.py">>
ExtensionFile == <<"/", "home/u/proj/", "fast.so">>
OtherRootFile == <<"/", "home/u/other/", "tool.py">>
LocalDeps == {DepA, DepB, DepC}
ModuleFiles == LocalDeps \cup {StdlibFile, SiteFile, ExtensionFile, OtherRootFile}

PySuffixed == {"main.py", "helper.py", "runpy.py", "job.py", "__init__.py",
               "dep_a.py", "dep_b.py", "dep_c.py", "tool.py", "tracker.py"}

EndsWithPy(f) == Len(f) > 0 /\ f[Len(f)] \in PySuffixed

StdlibDir == <<"/", "usr", "/lib/python3/">>
SitePackagesDirs == {<<"/", "home/u/venv/lib/", "site-packages">>}

\* archiver._is_std_or_site
IsStdOrSite(path) ==
    \/ StartsWith(AbsPath(path), StdlibDir)
    \/ \E sp \in SitePackagesDirs : StartsWith(AbsPath(path), sp)
    \/ StartsWith(AbsPath(path), BasePrefix)

\* os.path.dirname of a file, with the separator that the code appends
\* (r + os.sep) before it tests af.startswith.
DirnameSep(p) == SubSeq(p, 1, Len(p) - 1)

RECURSIVE Dedup(_, _)
Dedup(files, seen) ==
    IF files = <<>> THEN <<>>
    ELSE IF Head(files) \in seen THEN Dedup(Tail(files), seen)
    ELSE <<Head(files)>> \o Dedup(Tail(files), seen \cup {Head(files)})

\* archiver._select_local_imports: roots is a sequence of directories.
KeepModule(f, roots) ==
    /\ f # None
    /\ EndsWithPy(f)
    /\ ~IsStdOrSite(AbsPath(f))
    /\ (roots # <<>> => \E i \in 1..Len(roots) : StartsWith(AbsPath(f), roots[i]))

SelectLocalImports(mods, roots) ==
    Dedup(SelectSeq([i \in 1..Len(mods) |-> AbsPath(mods[i])],
                    LAMBDA f : KeepModule(f, roots)), {})

\* archiver._archive_dest: <archive_dir>/<out_name>/<date>/run-<stamp>/<out_name>.ws.zip
ArchiveDest(out, clock) == <<out.name, clock>>

Dests == {ArchiveDest(o, t) : o \in Outputs, t \in 0..MaxClock}

NoEntry == [arcname |-> "none", text |-> Absent]

NoArchive ==
    [present |-> FALSE, metadata |-> NoMetadata, script |-> NoEntry, deps |-> <<>>]

\* A file's stat is [size, readable]: size < 0 stands for os.path.getsize
\* raising OSError, readable = FALSE for zf.write raising.

\* A limit test that lets one file too many through (count > max_files), to
\* contrast with the code's count >= max_files.
LimitReachedCountOffByOne(count, total, sz, max_files, max_bytes) ==
    count > max_files \/ (total + sz) > max_bytes

LimitReached(count, total, sz, max_files, max_bytes) ==
    count >= max_files \/ (total + sz) > max_bytes

\* archiver.build_archive_for_output, the loop over dep_list (lines 99-112).
RECURSIVE AddDeps(_, _, _, _, _, _)
AddDeps(dep_list, stat, total, count, max_files, max_bytes) ==
    IF dep_list = <<>> THEN <<>>
    ELSE LET p == Head(dep_list)
             sz == stat[p].size
         IN  IF sz < 0
             THEN AddDeps(Tail(dep_list), stat, total, count, max_files, max_bytes)
             ELSE IF LimitReached(count, total, sz, max_files, max_bytes)
             THEN <<>>
             ELSE IF ~stat[p].readable
             THEN AddDeps(Tail(dep_list), stat, total, count, max_files, max_bytes)
             ELSE <<p>> \o AddDeps(Tail(dep_list), stat, total + sz, count + 1,
                                   max_files, max_bytes)

\* A snapshot entry that ignores '<output>.script.py', to contrast with the
\* code's preference for it.
SnapshotEntryRawOnly(side, out) ==
    IF Exists(side[<<out, SuffixScript>>])
    THEN [arcname |-> "script.script", text |-> side[<<out, SuffixScript>>]]
    ELSE [arcname |-> "none", text |-> Absent]

\* The snapshot entry: script.py from '<out>.script.py' if it exists, else
\* script.script from '<out>.script' if that exists.
SnapshotEntry(side, out) ==
    IF Exists(side[<<out, SuffixScriptPy>>])
    THEN [arcname |-> "script.py", text |-> side[<<out, SuffixScriptPy>>]]
    ELSE IF Exists(side[<<out, SuffixScript>>])
    THEN [arcname |-> "script.script", text |-> side[<<out, SuffixScript>>]]
    ELSE NoEntry

\* archiver.build_archive_for_output.  fault names the step that raises, if
\* any: "archive_mkdir" (before the zip is created) or "zip_write" (zf.write
\* of the snapshot; the with block then closes the zip as far as written).
\* Returns the archives after the call and whether the call raised.
BuildArchiveForOutput(arch, outs, side, mods, stat, clock, out, local_roots, max_files, max_bytes, metadata, fault) ==
    IF ~OutputExists(outs[out])
    THEN [archives |-> arch, raised |-> FALSE, dest |-> None]
    ELSE IF fault = "archive_mkdir"
    THEN [archives |-> arch, raised |-> TRUE, dest |-> None]
    ELSE
      LET dest == ArchiveDest(out, clock)
          meta == IF metadata.present THEN metadata ELSE NoMetadata
          entry == SnapshotEntry(side, out)
          dep_list == SelectLocalImports(mods, local_roots)
      IN  IF fault = "zip_write" /\ entry # NoEntry
          THEN [archives |-> [arch EXCEPT ![dest] =
                    [present |-> TRUE, metadata |-> meta, script |-> NoEntry,
                     deps |-> <<>>]],
                raised |-> TRUE, dest |-> dest]
          ELSE [archives |-> [arch EXCEPT ![dest] =
                    [present |-> TRUE, metadata |-> meta, script |-> entry,
                     deps |-> AddDeps(dep_list, stat, 0, 0, max_files, max_bytes)]],
                raised |-> FALSE, dest |-> dest]

(***************************************************************************)
(* tracker.py: configuration.                                              *)
(***************************************************************************)
EnvDefaultMaxFiles == 500
EnvDefaultMaxBytes == 50000000
ArchiverDefaultMaxFiles == 500
ArchiverDefaultMaxBytes == 50000000

\* The module globals as the import leaves them with no WHICH_SCRIPT_*
\* variable set in the environment.
DefaultCfg ==
    [write_metadata |-> FALSE,
     snapshot_py |-> TRUE,
     local_imports_roots |-> None,
     local_imports_max_files |-> EnvDefaultMaxFiles,
     local_imports_max_bytes |-> EnvDefaultMaxBytes,
     archive |-> TRUE]

\* A keyword argument of configure: given (set) with a value, or left None.
Kw(values) ==
    {[set |-> FALSE, val |-> CHOOSE v \in values : TRUE]}
        \cup {[set |-> TRUE, val |-> v] : v \in values}

Given(kw, old) == IF kw.set THEN kw.val ELSE old

\* tracker.configure
Configured(c, kw) ==
    [write_metadata |-> Given(kw.metadata, c.write_metadata),
     snapshot_py |-> Given(kw.snapshot_py, c.snapshot_py),
     local_imports_roots |-> c.local_imports_roots,
     local_imports_max_files |-> Given(kw.local_imports_max_files,
                                       c.local_imports_max_files),
     local_imports_max_bytes |-> Given(kw.local_imports_max_bytes,
                                       c.local_imports_max_bytes),
     archive |-> Given(kw.archive, c.archive)]

(***************************************************************************)
(* tracker.py: snapshots, the archive hook and the recording steps.        *)
(*                                                                         *)
(* fault names the step of a call that fails, if any:                      *)
(*   "open"          the underlying open raises (beyond a missing or       *)
(*                   already existing file)                                *)
(*   "makedirs"      os.makedirs(os.path.dirname(os.path.abspath(path)))   *)
(*                   raises, e.g. TypeError for open(fd, "w") on a         *)
(*                   file descriptor                                       *)
(*   "stack"         inspect.stack() raises                                *)
(*   "runtime"       _collect_runtime_metadata raises, e.g. os.getcwd()    *)
(*                   in a removed working directory                        *)
(*   "copyfile"      shutil.copyfile raises part-way                       *)
(*   "archive_mkdir", "zip_write"   see BuildArchiveForOutput              *)
(***************************************************************************)
Faults == {"none", "open", "makedirs", "stack", "runtime", "copyfile",
           "archive_mkdir", "zip_write"}

ScriptText(scr, p) == IF p \in DOMAIN scr THEN scr[p] ELSE Absent

\* tracker._atomic_copy_script: copy to dst + ".tmp", then os.replace.
AtomicCopyScript(side, out, text, fault) ==
    IF fault = "copyfile"
    THEN [sidecars |-> [side EXCEPT ![<<out, SuffixTmp>>] = Partial],
          raised |-> TRUE]
    ELSE [sidecars |-> [side EXCEPT ![<<out, SuffixScriptPy>>] = text,
                                    ![<<out, SuffixTmp>>] = Absent],
          raised |-> FALSE]

\* tracker._write_script_snapshots.  The except clause swallows the copy's
\* failure; _skip_logging is TRUE during the copy and FALSE afterwards.
WriteScriptSnapshots(side, c, target_base, text, fault) ==
    IF c.snapshot_py
    THEN AtomicCopyScript(side, target_base, text, fault).sidecars
    ELSE side

ArchiveLimits(c) ==
    [max_files |-> ArchiverDefaultMaxFiles, max_bytes |-> ArchiverDefaultMaxBytes]

\* tracker._auto_archive: the call passes no max_files and no max_bytes, so
\* build_archive_for_output runs with its own defaults.
AutoArchive(arch, outs, side, mods, stat, clock, c, target_base, metadata, calling_script, fault) ==
    IF ~c.archive
    THEN [archives |-> arch, raised |-> FALSE, dest |-> None]
    ELSE LET roots == IF c.local_imports_roots # None THEN c.local_imports_roots
                      ELSE IF calling_script # None
                           THEN <<DirnameSep(calling_script)>>
                           ELSE <<>>
             built_ == BuildArchiveForOutput(arch, outs, side, mods, stat, clock,
                          target_base, roots, ArchiveLimits(c).max_files,
                          ArchiveLimits(c).max_bytes, metadata, fault)
         IN  [archives |-> built_.archives, raised |-> FALSE, dest |-> built_.dest]

\* What a call leaves behind and hands back.
Outcome(outs, side, arch, raised, recordings, calling, text, metadata, dest) ==
    [outputs |-> outs, sidecars |-> side, archives |-> arch, raised |-> raised,
     recordings |-> recordings, calling |-> calling, script_text |-> text,
     metadata |-> metadata, dest |-> dest]

\* The steps _record_write (lines 312-325) and save_output (lines 260-271)
\* share: identify the caller, build the metadata dict, snapshot, archive.
RecordingSteps(outs, side, arch, scr, mods, stat, clock, c, path, with_params, frames, fault) ==
    IF fault = "stack"
    THEN Outcome(outs, side, arch, TRUE, 1, None, Absent, NoMetadata, None)
    ELSE
      LET calling_script == FindCallingScript(frames, TrackerFile)
          text == IF calling_script # None THEN ScriptText(scr, calling_script)
                  ELSE Absent
      IN  IF c.write_metadata /\ fault = "runtime"
          THEN Outcome(outs, side, arch, TRUE, 1, calling_script, text,
                       NoMetadata, None)
          ELSE
            LET metadata == IF c.write_metadata
                            THEN Metadata(calling_script, with_params)
                            ELSE NoMetadata
                side2 == IF calling_script # None /\ Exists(text)
                         THEN WriteScriptSnapshots(side, c, path, text, fault)
                         ELSE side
                arc == AutoArchive(arch, outs, side2, mods, stat, clock, c, path,
                                   metadata, calling_script, fault)
            IN  Outcome(outs, side2, arc.archives, FALSE, 1, calling_script,
                        text, metadata, arc.dest)

\* tracker._record_write
RecordWrite(outs, side, arch, scr, mods, stat, clock, c, path, frames, fault) ==
    IF fault = "makedirs"
    THEN Outcome(outs, side, arch, TRUE, 1, None, Absent, NoMetadata, None)
    ELSE RecordingSteps(outs, side, arch, scr, mods, stat, clock, c, path, TRUE,
                        frames, fault)

(***************************************************************************)
(* open: the built-in and tracker._logging_open.                           *)
(***************************************************************************)
Modes == {<<"r">>, <<"r", "+">>, <<"w">>, <<"w", "b">>, <<"a">>, <<"x">>}

HasChar(mode, ch) == \E i \in 1..Len(mode) : mode[i] = ch

\* A mode test that looks for 'w' only, to contrast with the code's test for
\* 'w', 'a' and 'x'.
IsWriteModeOnlyW(mode) == HasChar(mode, "w")

\* any(m in mode for m in ("w", "a", "x"))
IsWriteMode(mode) == \E m \in {"w", "a", "x"} : HasChar(mode, m)

\* The built-in open on an output path: whether it returns a handle, and the
\* file it leaves.
OriginalOpen(outs, file, mode, fault) ==
    IF fault = "open" THEN [ok |-> FALSE, outputs |-> outs]
    ELSE IF HasChar(mode, "r")
    THEN [ok |-> OutputExists(outs[file]), outputs |-> outs]
    ELSE IF HasChar(mode, "w")
    THEN [ok |-> TRUE, outputs |-> [outs EXCEPT ![file] = "empty"]]
    ELSE IF HasChar(mode, "x")
    THEN IF outs[file] # "absent" THEN [ok |-> FALSE, outputs |-> outs]
         ELSE [ok |-> TRUE, outputs |-> [outs EXCEPT ![file] = "empty"]]
    ELSE [ok |-> TRUE,
          outputs |-> [outs EXCEPT ![file] =
                          IF outs[file] = "absent" THEN "empty" ELSE outs[file]]]

\* A test that ignores _skip_logging, to contrast with the code's test.
ShouldRecordIgnoringSkip(active, skip, mode) == active /\ IsWriteMode(mode)

ShouldRecord(active, skip, mode) == active /\ ~skip /\ IsWriteMode(mode)

\* tracker._logging_open.  handle: the wrapper returned fh to its caller.
LoggingOpen(outs, side, arch, scr, mods, stat, clock, c, active, skip, file, mode, frames, fault) ==
    LET fh == OriginalOpen(outs, file, mode, fault) IN
    IF ~fh.ok
    THEN [Outcome(outs, side, arch, TRUE, 0, None, Absent, NoMetadata, None)
            EXCEPT !.outputs = fh.outputs] @@ [opened |-> FALSE, handle |-> FALSE]
    ELSE IF ShouldRecord(active, skip, mode)
    THEN LET rec == RecordWrite(fh.outputs, side, arch, scr, mods, stat, clock, c,
                                file, frames, fault)
         IN  rec @@ [opened |-> TRUE, handle |-> ~rec.raised]
    ELSE Outcome(fh.outputs, side, arch, FALSE, 0, None, Absent, NoMetadata, None)
            @@ [opened |-> TRUE, handle |-> TRUE]

\* builtins.open as currently bound.
BuiltinsOpen(bound, outs, side, arch, scr, mods, stat, clock, c, active, skip, file, mode, frames, fault) ==
    IF bound = "logging"
    THEN LoggingOpen(outs, side, arch, scr, mods, stat, clock, c, active, skip,
                     file, mode, LibFramesOpen \o frames, fault)
    ELSE LET fh == OriginalOpen(outs, file, mode, fault) IN
         Outcome(fh.outputs, side, arch, ~fh.ok, 0, None, Absent, NoMetadata, None)
            @@ [opened |-> fh.ok, handle |-> fh.ok]

\* tracker.save_output.  The with-statement's open goes through builtins.open,
\* so it is itself intercepted while auto logging is enabled.
SaveOutput(bound, outs, side, arch, scr, mods, stat, clock, c, active, skip, output_path, frames, fault) ==
    IF fault = "makedirs"
    THEN Outcome(outs, side, arch, TRUE, 0, None, Absent, NoMetadata, None)
            @@ [opened |-> FALSE, handle |-> FALSE, written |-> FALSE]
    ELSE
      LET f == BuiltinsOpen(bound, outs, side, arch, scr, mods, stat, clock, c,
                            active, skip, output_path, <<"w">>,
                            <<TrackerFile>> \o frames, fault)
      IN  IF f.raised
          THEN f @@ [written |-> FALSE]
          ELSE
            LET outs2 == [f.outputs EXCEPT ![output_path] = "data"]
                rec == RecordingSteps(outs2, f.sidecars, f.archives, scr, mods,
                                      stat, clock, c, output_path, FALSE,
                                      LibFramesSave \o frames, fault)
            IN  [rec EXCEPT !.recordings = f.recordings + 1]
                    @@ [opened |-> TRUE, handle |-> TRUE, written |-> TRUE]

(***************************************************************************)
(* open_script.py                                                          *)
(***************************************************************************)
MetaAbsent == [kind |-> "absent", sp_kind |-> "missing", script_path |-> None]

\* What '<file>.metadata.json' can hold: nothing readable, text that is not
\* JSON, JSON that is not an object, or an object whose "script_path" is
\* missing, null, "", a number, or a string.
MetaKinds == {"absent", "unreadable", "malformed", "list", "dict"}
SpKinds == {"missing", "null", "empty", "number", "string"}

NoTarget == [kind |-> "none", path |-> None]

\* A preference that tries '<file>.script' before '<file>.script.py', to
\* contrast with the code's order.
FirstChoiceRawFirst(side, file) ==
    IF Exists(side[<<file, SuffixScript>>]) THEN "snapshot"
    ELSE IF Exists(side[<<file, SuffixScriptPy>>]) THEN "snapshot_py"
    ELSE "metadata"

\* open_script._find_target_from_sidecars
FirstChoice(side, file) ==
    IF Exists(side[<<file, SuffixScriptPy>>]) THEN "snapshot_py"
    ELSE IF Exists(side[<<file, SuffixScript>>]) THEN "snapshot"
    ELSE "metadata"

FindTargetFromSidecars(side, metas, scr, file) ==
    LET choice == FirstChoice(side, file)
        meta == metas[file]
    IN  IF choice # "metadata" THEN [kind |-> choice, path |-> None]
        ELSE IF meta.kind = "absent" THEN NoTarget
        ELSE IF meta.kind # "dict" THEN NoTarget      \* except Exception: pass
        ELSE IF meta.sp_kind \in {"missing", "null", "empty"} THEN NoTarget
        ELSE IF meta.sp_kind = "number" THEN NoTarget \* Path(5): TypeError, swallowed
        ELSE IF Exists(ScriptText(scr, meta.script_path))
        THEN [kind |-> "script_path", path |-> meta.script_path]
        ELSE NoTarget

\* open_script.main: 2 without the output file, 3 without a target, else 0
\* when one of the openers opens the target and 4 when none does.
MainExit(outs, side, metas, scr, file, opener_ok) ==
    IF ~OutputExists(outs[file]) THEN 2
    ELSE IF FindTargetFromSidecars(side, metas, scr, file) = NoTarget THEN 3
    ELSE IF opener_ok THEN 0
    ELSE 4

(***************************************************************************)
(* Initial states.                                                         *)
(***************************************************************************)
Idle ==
    [op |-> "none", out |-> OutA, mode |-> <<>>, fault |-> "none",
     opened |-> FALSE, handle |-> FALSE, written |-> FALSE, raised |-> FALSE,
     recordings |-> 0, calling |-> None, script_text |-> Absent,
     metadata |-> NoMetadata, dest |-> None, returned |-> FALSE]

StatFiles == ModuleFiles \cup ScriptPaths

TrackerInit ==
    /\ cfg = DefaultCfg
    /\ log_active = FALSE
    /\ builtins_open = "original"
    /\ skip_logging = FALSE
    /\ last = Idle
    /\ writes = 0
    /\ now = 0

DiskInit ==
    /\ outputs \in {[o \in Outputs |-> IF o = OutA THEN c ELSE "absent"] :
                       c \in {"absent", "data"}}
    /\ scripts = [p \in ScriptPaths |-> <<ScriptName(p), 1>>]
    /\ sidecars = [k \in Outputs \X SnapshotSuffixes |-> Absent]
    /\ metafiles = [o \in Outputs |-> MetaAbsent]
    /\ archives = [d \in Dests |-> NoArchive]

ModulesInit ==
    /\ sys_modules = <<StdlibFile, UserMain, DepA, ExtensionFile, SiteFile,
                       OtherRootFile, DepB>>
    /\ dep_stat = [f \in StatFiles |-> [size |-> 1, readable |-> TRUE]]

CallerIdle == stack = <<>> /\ found = None /\ caller_done = FALSE

ArchiverIdle ==
    /\ arg_max_files = 0
    /\ arg_max_bytes = 0
    /\ arg_metadata = NoMetadata
    /\ built = FALSE

LookupIdle == lookup_done = FALSE /\ target = NoTarget /\ exit_code = 0

\* A thread that has opened nothing yet.
IdleThread ==
    [pc |-> "idle", file |-> OutA, mode |-> <<"r">>, opened |-> FALSE,
     recorded |-> 0, opens |-> 0, at |-> "tmp"]

OneThread == {"t1"}
TwoThreads == {"t1", "t2"}

ThreadsIdle ==
    /\ toggle_log = <<>>
    /\ th = [t \in OneThread |-> IdleThread]
    /\ nested = 0
    /\ build_log = <<>>

Init ==
    /\ TrackerInit
    /\ DiskInit
    /\ ModulesInit
    /\ CallerIdle
    /\ ArchiverIdle
    /\ LookupIdle
    /\ ThreadsIdle

trackerVars == <<cfg, log_active, builtins_open, skip_logging, last, writes>>
diskVars == <<outputs, scripts, sidecars, metafiles, archives>>
envVars == <<sys_modules, dep_stat, now>>
callerVars == <<stack, found, caller_done>>
archiverVars == <<arg_max_files, arg_max_bytes, arg_metadata, built>>
lookupVars == <<lookup_done, target, exit_code>>
stepVars == <<th, nested, build_log>>
threadVars == <<toggle_log, stepVars>>
vars == <<trackerVars, diskVars, envVars, callerVars, archiverVars, lookupVars, threadVars>>

(***************************************************************************)
(* The tracker's API and its environment.                                  *)
(***************************************************************************)
\* tracker.enable_auto_logging
\* What disable_auto_logging would leave if it cleared the flag without
\* putting the original open back, to contrast with the code.
AfterDisableKeepsWrapper(active, bound) ==
    [log_active |-> FALSE, builtins_open |-> bound]

\* The flag and the binding of builtins.open that enable_auto_logging and
\* disable_auto_logging leave; _original_open is the built-in open captured
\* when the module was imported.
AfterEnable(active, bound) ==
    IF ~active THEN [log_active |-> TRUE, builtins_open |-> "logging"]
    ELSE [log_active |-> active, builtins_open |-> bound]

AfterDisable(active, bound) ==
    IF active THEN [log_active |-> FALSE, builtins_open |-> "original"]
    ELSE [log_active |-> active, builtins_open |-> bound]

EnableAutoLogging ==
    /\ writes < MaxWrites
    /\ log_active' = AfterEnable(log_active, builtins_open).log_active
    /\ builtins_open' = AfterEnable(log_active, builtins_open).builtins_open
    /\ last' = [Idle EXCEPT !.op = "enable"]
    /\ UNCHANGED <<cfg, skip_logging, writes, diskVars, envVars, callerVars,
                   archiverVars, lookupVars, stepVars>>

\* tracker.disable_auto_logging
DisableAutoLogging ==
    /\ writes < MaxWrites
    /\ log_active' = AfterDisable(log_active, builtins_open).log_active
    /\ builtins_open' = AfterDisable(log_active, builtins_open).builtins_open
    /\ last' = [Idle EXCEPT !.op = "disable"]
    /\ UNCHANGED <<cfg, skip_logging, writes, diskVars, envVars, callerVars,
                   archiverVars, lookupVars, stepVars>>

Configure(kw) ==
    /\ writes < MaxWrites
    /\ cfg' = Configured(cfg, kw)
    /\ last' = [Idle EXCEPT !.op = "configure"]
    /\ UNCHANGED <<log_active, builtins_open, skip_logging, writes, diskVars, envVars,
                   callerVars, archiverVars, lookupVars, threadVars>>

Observed(op, file, mode, fault, res, returned) ==
    [op |-> op, out |-> file, mode |-> mode, fault |-> fault,
     opened |-> res.opened, handle |-> res.handle, written |-> res.written,
     raised |-> res.raised, recordings |-> res.recordings,
     calling |-> res.calling, script_text |-> res.script_text,
     metadata |-> res.metadata, dest |-> res.dest, returned |-> returned]

\* User code calls open(file, mode) from the call stack frames.
Open(file, mode, frames, fault) ==
    /\ writes < MaxWrites
    /\ \E res \in {BuiltinsOpen(builtins_open, outputs, sidecars, archives, scripts,
                             sys_modules, dep_stat, now, cfg, log_active,
                             skip_logging, file, mode, frames, fault)} :
        /\ outputs' = res.outputs
        /\ sidecars' = res.sidecars
        /\ archives' = res.archives
        /\ last' = Observed("open", file, mode, fault,
                            res @@ [written |-> FALSE], FALSE)
        /\ writes' = writes + 1
        /\ UNCHANGED <<cfg, log_active, builtins_open, skip_logging, scripts,
                       metafiles, envVars, callerVars, archiverVars, lookupVars, threadVars>>

\* User code calls save_output(data, output_path).
CallSaveOutput(output_path, frames, fault) ==
    /\ writes < MaxWrites
    /\ \E res \in {SaveOutput(builtins_open, outputs, sidecars, archives, scripts,
                           sys_modules, dep_stat, now, cfg, log_active,
                           skip_logging, output_path, frames, fault)} :
        /\ outputs' = res.outputs
        /\ sidecars' = res.sidecars
        /\ archives' = res.archives
        /\ last' = Observed("save_output", output_path, <<"w">>, fault, res,
                            ~res.raised)
        /\ writes' = writes + 1
        /\ UNCHANGED <<cfg, log_active, builtins_open, skip_logging, scripts,
                       metafiles, envVars, callerVars, archiverVars, lookupVars, threadVars>>

\* The user edits or removes a script between calls.
EditScript(p) ==
    /\ writes < MaxWrites
    /\ \E t \in ScriptTexts(p) : t # scripts[p] /\ scripts' = [scripts EXCEPT ![p] = t]
    /\ last' = Idle
    /\ UNCHANGED <<cfg, log_active, builtins_open, skip_logging, writes, outputs,
                   sidecars, metafiles, archives, envVars, callerVars,
                   archiverVars, lookupVars, threadVars>>

RemoveScript(p) ==
    /\ writes < MaxWrites
    /\ Exists(scripts[p])
    /\ scripts' = [scripts EXCEPT ![p] = Absent]
    /\ last' = Idle
    /\ UNCHANGED <<cfg, log_active, builtins_open, skip_logging, writes, outputs,
                   sidecars, metafiles, archives, envVars, callerVars,
                   archiverVars, lookupVars, threadVars>>

\* The call stacks user code opens files from (innermost frame first): from
\* a script, and from an interactive session with no script at all.  What
\* the caller is for other stacks is SpecCaller's matter.
UserFrames == {<<UserMain>>, <<PseudoFile>>}

FlagKwargs ==
    [metadata : Kw(BOOLEAN), snapshot_py : Kw(BOOLEAN), archive : Kw(BOOLEAN),
     local_imports_max_files : {[set |-> FALSE, val |-> 0]},
     local_imports_max_bytes : {[set |-> FALSE, val |-> 0]}]

Next ==
    \/ EnableAutoLogging /\ UNCHANGED toggle_log
    \/ DisableAutoLogging /\ UNCHANGED toggle_log
    \/ \E kw \in FlagKwargs : Configure(kw)
    \/ \E mode \in Modes, frames \in UserFrames, fault \in Faults :
           Open(OutA, mode, frames, fault)
    \/ \E frames \in UserFrames, fault \in Faults :
           CallSaveOutput(OutA, frames, fault)
    \/ EditScript(UserMain)
    \/ RemoveScript(UserMain)

Spec == Init /\ [][Next]_vars


(***************************************************************************)
(* configure's limits on the archive's dependency list: SpecLimits runs    *)
(* configure over local_imports_max_files and local_imports_max_bytes,     *)
(* then a tracked write.                                                   *)
(***************************************************************************)
LimitKwargs ==
    [metadata : {[set |-> FALSE, val |-> FALSE]},
     snapshot_py : {[set |-> FALSE, val |-> FALSE]},
     archive : {[set |-> FALSE, val |-> FALSE]},
     local_imports_max_files : Kw(1..MaxLimit),
     local_imports_max_bytes : Kw(1..MaxLimit)]

NextLimits ==
    \/ EnableAutoLogging /\ UNCHANGED toggle_log
    \/ \E kw \in LimitKwargs : Configure(kw)
    \/ \E frames \in UserFrames : Open(OutA, <<"w">>, frames, "none")
    \/ \E frames \in UserFrames : CallSaveOutput(OutA, frames, "none")
    \/ EditScript(UserMain)

SpecLimits == Init /\ [][NextLimits]_vars

(***************************************************************************)
(* _find_calling_script on its own: SpecCaller draws a call stack, the     *)
(* library's frames innermost, and applies the function.                   *)
(***************************************************************************)
RECURSIVE SeqsUpTo(_, _)
SeqsUpTo(S, n) ==
    IF n = 0 THEN {<<>>}
    ELSE LET shorter == SeqsUpTo(S, n - 1) IN
         shorter \cup {<<x>> \o t : x \in S, t \in {u \in shorter : Len(u) = n - 1}}

UserStacks == SeqsUpTo(FrameFiles, MaxUserFrames) \ {<<>>}

DiskEmpty ==
    /\ outputs = [o \in Outputs |-> "absent"]
    /\ scripts = [p \in ScriptPaths |-> <<ScriptName(p), 1>>]
    /\ sidecars = [k \in Outputs \X SnapshotSuffixes |-> Absent]
    /\ metafiles = [o \in Outputs |-> MetaAbsent]
    /\ archives = [d \in Dests |-> NoArchive]

InitCaller ==
    /\ TrackerInit
    /\ ThreadsIdle
    /\ DiskEmpty
    /\ ModulesInit
    /\ ArchiverIdle
    /\ LookupIdle
    /\ stack \in {LibFramesOpen \o u : u \in UserStacks}
    /\ found = None
    /\ caller_done = FALSE

CallFindCallingScript ==
    /\ ~caller_done
    /\ found' = FindCallingScript(stack, TrackerFile)
    /\ caller_done' = TRUE
    /\ UNCHANGED <<stack, trackerVars, diskVars, envVars, archiverVars, lookupVars, threadVars>>

SpecCaller == InitCaller /\ [][CallFindCallingScript]_vars

(***************************************************************************)
(* build_archive_for_output on its own: SpecArchive draws the loaded       *)
(* modules, the files' sizes and readability, the limits and the metadata, *)
(* and applies the function to an existing output.                         *)
(***************************************************************************)
ArchiveModuleFiles == LocalDeps \cup {StdlibFile}

StatChoices ==
    {[size |-> -1, readable |-> TRUE]}
        \cup {[size |-> n, readable |-> r] : n \in 1..MaxSize, r \in BOOLEAN}

DefaultStat == [size |-> 1, readable |-> TRUE]

ArchiveRoots == <<DirnameSep(UserMain)>>

InitArchive ==
    /\ TrackerInit
    /\ ThreadsIdle
    /\ CallerIdle
    /\ LookupIdle
    /\ outputs = [o \in Outputs |-> IF o = OutA THEN "data" ELSE "absent"]
    /\ scripts = [p \in ScriptPaths |-> <<ScriptName(p), 1>>]
    /\ sidecars = [k \in Outputs \X SnapshotSuffixes |->
                      IF k = <<OutA, SuffixScriptPy>> THEN <<ScriptName(UserMain), 1>>
                      ELSE Absent]
    /\ metafiles = [o \in Outputs |-> MetaAbsent]
    /\ archives = [d \in Dests |-> NoArchive]
    /\ sys_modules \in SeqsUpTo(ArchiveModuleFiles, MaxMods)
    /\ dep_stat \in {[f \in StatFiles |-> IF f = DepA THEN a
                                          ELSE IF f = DepB THEN b
                                          ELSE DefaultStat] :
                        a \in StatChoices, b \in StatChoices}
    /\ arg_max_files \in 0..MaxFilesArg
    /\ arg_max_bytes \in 0..MaxBytesArg
    /\ arg_metadata = Metadata(UserMain, TRUE)
    /\ built = FALSE

CallBuildArchive ==
    /\ ~built
    /\ archives' = BuildArchiveForOutput(archives, outputs, sidecars, sys_modules,
                       dep_stat, now, OutA, ArchiveRoots, arg_max_files,
                       arg_max_bytes, arg_metadata, "none").archives
    /\ built' = TRUE
    /\ UNCHANGED <<trackerVars, outputs, scripts, sidecars, metafiles, envVars,
                   callerVars, arg_max_files, arg_max_bytes, arg_metadata,
                   lookupVars, threadVars>>

SpecArchive == InitArchive /\ [][CallBuildArchive]_vars

(***************************************************************************)
(* open_script on its own: SpecOpenScript draws the sidecars found next to *)
(* an output and runs main.                                                *)
(***************************************************************************)
MetaChoices ==
    {[kind |-> k, sp_kind |-> "missing", script_path |-> None] :
        k \in MetaKinds \ {"dict"}}
        \cup {[kind |-> "dict", sp_kind |-> k, script_path |-> None] :
                 k \in SpKinds \ {"string"}}
        \cup {[kind |-> "dict", sp_kind |-> "string", script_path |-> UserMain]}

InitOpenScript ==
    /\ TrackerInit
    /\ ThreadsIdle
    /\ ModulesInit
    /\ CallerIdle
    /\ ArchiverIdle
    /\ outputs \in {[o \in Outputs |-> IF o = OutA THEN c ELSE "absent"] :
                       c \in {"absent", "data"}}
    /\ scripts \in {[p \in ScriptPaths |-> IF p = UserMain THEN t
                                           ELSE <<ScriptName(p), 1>>] :
                       t \in {Absent, <<ScriptName(UserMain), 1>>}}
    /\ sidecars \in {[k \in Outputs \X SnapshotSuffixes |->
                         IF k = <<OutA, SuffixScriptPy>> THEN a
                         ELSE IF k = <<OutA, SuffixScript>> THEN b
                         ELSE Absent] :
                        a \in {Absent, <<ScriptName(UserMain), 1>>},
                        b \in {Absent, <<ScriptName(UserMain), 1>>}}
    /\ metafiles \in {[o \in Outputs |-> IF o = OutA THEN m ELSE MetaAbsent] :
                         m \in MetaChoices}
    /\ archives = [d \in Dests |-> NoArchive]
    /\ lookup_done = FALSE
    /\ target = NoTarget
    /\ exit_code = 0

RunOpenScript(opener_ok) ==
    /\ ~lookup_done
    /\ target' = IF OutputExists(outputs[OutA])
                 THEN FindTargetFromSidecars(sidecars, metafiles, scripts, OutA)
                 ELSE NoTarget
    /\ exit_code' = MainExit(outputs, sidecars, metafiles, scripts, OutA, opener_ok)
    /\ lookup_done' = TRUE
    /\ UNCHANGED <<trackerVars, diskVars, envVars, callerVars, archiverVars, threadVars>>

NextOpenScript == \E opener_ok \in BOOLEAN : RunOpenScript(opener_ok)

SpecOpenScript == InitOpenScript /\ [][NextOpenScript]_vars


(***************************************************************************)
(* enable_auto_logging and disable_auto_logging in any order: SpecToggle   *)
(* makes up to MaxToggles calls of the two, keeps their order in           *)
(* toggle_log, and then opens a file.                                      *)
(***************************************************************************)
ToggleEnable ==
    /\ Len(toggle_log) < MaxToggles
    /\ EnableAutoLogging
    /\ toggle_log' = Append(toggle_log, "enable")

ToggleDisable ==
    /\ Len(toggle_log) < MaxToggles
    /\ DisableAutoLogging
    /\ toggle_log' = Append(toggle_log, "disable")

NextToggle ==
    \/ ToggleEnable
    \/ ToggleDisable
    \/ \E mode \in Modes, frames \in UserFrames : Open(OutA, mode, frames, "none")

SpecToggle == Init /\ [][NextToggle]_vars

(***************************************************************************)
(* An intercepted open, step by step.  Each thread of user code opens      *)
(* files through builtins.open; a recorded open then runs _record_write,   *)
(* _write_script_snapshots, _atomic_copy_script and _auto_archive, and the *)
(* threads interleave between the steps.  th[t].pc is where thread t is:   *)
(*   "idle"       outside open                                             *)
(*   "record"     in _record_write, before the snapshot (lines 311-322)    *)
(*   "snap"       entering _write_script_snapshots (line 226)              *)
(*   "copy_open"  shutil.copyfile about to open its two files (line 218)   *)
(*   "copy_data"  shutil.copyfile copying the text                         *)
(*   "replace"    os.replace(tmp, dst) (line 219)                          *)
(*   "finally"    the finally clause of _write_script_snapshots (line 234) *)
(*   "archive"    _auto_archive (line 325)                                 *)
(* th[t].at is the path at which the file that the copy writes to is found *)
(* now: it was opened as tmp, and an os.replace by another thread renames  *)
(* it to dst ("dst") or replaces it there ("gone").                        *)
(***************************************************************************)
ThreadModes == {<<"r">>, <<"w">>, <<"a">>}

\* The call stack of a thread's open: the user's script calls open.
ThreadFrames == LibFramesOpen \o <<UserMain>>

\* A copy that writes straight to the snapshot path, to contrast with the
\* code's copy to dst + ".tmp".
CopyTargetInPlace(out) == <<out, SuffixScriptPy>>

\* _atomic_copy_script: tmp = dst + ".tmp", the file shutil.copyfile writes.
CopyTarget(out) == <<out, SuffixTmp>>

SnapshotPath(out) == <<out, SuffixScriptPy>>

\* Line 297 of _logging_open as builtins.open runs it for any caller.
Intercepted(mode) ==
    builtins_open = "logging" /\ ShouldRecord(log_active, skip_logging, mode)

AllIdle == \A t \in DOMAIN th : th[t].pc = "idle"

\* User code in thread t calls open(file, mode) with auto logging enabled:
\* lines 296-297 of _logging_open.
UserOpen(t, file, mode) ==
    /\ log_active
    /\ th[t].pc = "idle"
    /\ th[t].opens < MaxOpens
    /\ \E fh \in {OriginalOpen(outputs, file, mode, "none")} :
        /\ outputs' = fh.outputs
        /\ th' = [th EXCEPT ![t] =
                     [pc |-> IF fh.ok /\ Intercepted(mode) THEN "record" ELSE "idle",
                      file |-> file, mode |-> mode, opened |-> fh.ok,
                      recorded |-> IF fh.ok /\ Intercepted(mode) THEN 1 ELSE 0,
                      opens |-> @.opens + 1, at |-> "tmp"]]
    /\ UNCHANGED <<trackerVars, scripts, sidecars, metafiles, archives, envVars,
                   callerVars, archiverVars, lookupVars, toggle_log, nested,
                   build_log>>

\* _record_write up to the snapshot: os.makedirs (which may raise), the
\* caller, and the test calling_script and os.path.exists(calling_script).
RecordStart(t, fault) ==
    /\ th[t].pc = "record"
    /\ LET calling_script == FindCallingScript(ThreadFrames, TrackerFile) IN
       th' = [th EXCEPT ![t].pc =
                 IF fault = "makedirs" THEN "idle"
                 ELSE IF calling_script # None
                         /\ Exists(ScriptText(scripts, calling_script))
                      THEN "snap"
                      ELSE "archive"]
    /\ UNCHANGED <<trackerVars, diskVars, envVars, callerVars, archiverVars,
                   lookupVars, toggle_log, nested, build_log>>

\* _write_script_snapshots, line 226: _skip_logging = True.
SnapshotBegin(t) ==
    /\ th[t].pc = "snap"
    /\ skip_logging' = TRUE
    /\ th' = [th EXCEPT ![t].pc = IF cfg.snapshot_py THEN "copy_open" ELSE "finally"]
    /\ UNCHANGED <<cfg, log_active, builtins_open, last, writes, diskVars, envVars,
                   callerVars, archiverVars, lookupVars, toggle_log, nested,
                   build_log>>

\* shutil.copyfile opens src with "rb" and tmp with "wb", both through
\* builtins.open.  The "wb" open creates or truncates tmp.  If line 297 lets
\* it through, the library's own write is recorded like a user's: that
\* nested _record_write runs its own _write_script_snapshots, whose finally
\* clause leaves _skip_logging False.
CopyOpen(t) ==
    /\ th[t].pc = "copy_open"
    /\ sidecars' = [sidecars EXCEPT ![CopyTarget(th[t].file)] = Partial]
    /\ IF Intercepted(<<"w", "b">>)
       THEN nested' = nested + 1 /\ skip_logging' = FALSE
       ELSE UNCHANGED <<nested, skip_logging>>
    /\ th' = [th EXCEPT ![t].pc = "copy_data", ![t].at = "tmp"]
    /\ UNCHANGED <<cfg, log_active, builtins_open, last, writes, outputs, scripts,
                   metafiles, archives, envVars, callerVars, archiverVars,
                   lookupVars, toggle_log, build_log>>

\* The path where the file that thread t's copy writes to is found.
WrittenFile(t) ==
    IF th[t].at = "tmp" THEN CopyTarget(th[t].file) ELSE SnapshotPath(th[t].file)

\* shutil.copyfile copies the text: all of it, or it raises part-way and
\* leaves the first part.  The except clause at line 231 swallows the error.
CopyData(t, ok) ==
    /\ th[t].pc = "copy_data"
    /\ sidecars' = IF ok /\ th[t].at # "gone"
                   THEN [sidecars EXCEPT ![WrittenFile(t)] = ScriptText(scripts, UserMain)]
                   ELSE sidecars
    /\ th' = [th EXCEPT ![t].pc = IF ok THEN "replace" ELSE "finally"]
    /\ UNCHANGED <<trackerVars, outputs, scripts, metafiles, archives, envVars,
                   callerVars, archiverVars, lookupVars, toggle_log, nested,
                   build_log>>

\* Where a file that another thread is still copying to is found after
\* os.replace(tmp, dst): the file at tmp is now at dst, the file that was at
\* dst has no name any more.
AfterReplace(at) == IF at = "tmp" THEN "dst" ELSE "gone"

\* os.replace(tmp, dst).  It raises when tmp is not there (another thread has
\* moved it) or when the platform refuses; line 231 swallows the error.
Replace(t, ok) ==
    /\ th[t].pc = "replace"
    /\ LET tmp == CopyTarget(th[t].file)
           dst == SnapshotPath(th[t].file)
           moved == ok /\ Exists(sidecars[tmp]) /\ tmp # dst
       IN  /\ sidecars' = IF moved
                          THEN [sidecars EXCEPT ![dst] = sidecars[tmp], ![tmp] = Absent]
                          ELSE sidecars
           /\ th' = [u \in DOMAIN th |->
                        IF u = t THEN [th[u] EXCEPT !.pc = "finally"]
                        ELSE IF moved /\ th[u].pc = "copy_data"
                                /\ th[u].file = th[t].file
                             THEN [th[u] EXCEPT !.at = AfterReplace(@)]
                             ELSE th[u]]
    /\ UNCHANGED <<trackerVars, outputs, scripts, metafiles, archives, envVars,
                   callerVars, archiverVars, lookupVars, toggle_log, nested,
                   build_log>>

\* _write_script_snapshots, line 234: finally: _skip_logging = False.
Finally(t) ==
    /\ th[t].pc = "finally"
    /\ skip_logging' = FALSE
    /\ th' = [th EXCEPT ![t].pc = "archive"]
    /\ UNCHANGED <<cfg, log_active, builtins_open, last, writes, diskVars, envVars,
                   callerVars, archiverVars, lookupVars, toggle_log, nested,
                   build_log>>

\* _record_write, line 325: _auto_archive, and the return to user code.
Archive(t) ==
    /\ th[t].pc = "archive"
    /\ LET calling_script == FindCallingScript(ThreadFrames, TrackerFile)
           metadata == IF cfg.write_metadata THEN Metadata(calling_script, TRUE)
                       ELSE NoMetadata
       IN  \E res \in {AutoArchive(archives, outputs, sidecars, sys_modules,
                                   dep_stat, now, cfg, th[t].file, metadata,
                                   calling_script, "none")} :
               /\ archives' = res.archives
               /\ build_log' = IF res.dest = None THEN build_log
                               ELSE Append(build_log,
                                           [dest |-> res.dest, out |-> th[t].file,
                                            content |-> res.archives[res.dest]])
    /\ th' = [th EXCEPT ![t].pc = "idle"]
    /\ UNCHANGED <<trackerVars, outputs, scripts, sidecars, metafiles, envVars,
                   callerVars, archiverVars, lookupVars, toggle_log, nested>>

\* The wall clock reaches the next second.
Tick ==
    /\ now < MaxClock
    /\ now' = now + 1
    /\ UNCHANGED <<trackerVars, diskVars, sys_modules, dep_stat, callerVars,
                   archiverVars, lookupVars, threadVars>>

InitThreads(ids) ==
    /\ TrackerInit
    /\ DiskInit
    /\ ModulesInit
    /\ CallerIdle
    /\ ArchiverIdle
    /\ LookupIdle
    /\ toggle_log = <<>>
    /\ th = [t \in ids |-> IdleThread]
    /\ nested = 0
    /\ build_log = <<>>

\* A step of thread t inside an intercepted open.
ThreadStep(t) ==
    \/ \E fault \in {"none", "makedirs"} : RecordStart(t, fault)
    \/ SnapshotBegin(t)
    \/ CopyOpen(t)
    \/ \E ok \in BOOLEAN : CopyData(t, ok)
    \/ \E ok \in BOOLEAN : Replace(t, ok)
    \/ Finally(t)
    \/ Archive(t)

\* One thread of user code writes two same-named outputs in different
\* directories; the clock advances and the script is edited between opens.
NextSingle ==
    \/ EnableAutoLogging /\ UNCHANGED toggle_log
    \/ \E t \in DOMAIN th, file \in Outputs, mode \in ThreadModes : UserOpen(t, file, mode)
    \/ \E t \in DOMAIN th : ThreadStep(t)
    \/ Tick
    \/ AllIdle /\ EditScript(UserMain)

InitSingle == InitThreads(OneThread)

SpecSingle == InitSingle /\ [][NextSingle]_vars

\* Two threads of user code open the same output.
NextTwoThreads ==
    \/ EnableAutoLogging /\ UNCHANGED toggle_log
    \/ \E t \in DOMAIN th, mode \in ThreadModes : UserOpen(t, OutA, mode)
    \/ \E t \in DOMAIN th : ThreadStep(t)

InitTwoThreads == InitThreads(TwoThreads)

SpecThreads == InitTwoThreads /\ [][NextTwoThreads]_vars

(***************************************************************************)
(* Properties.                                                             *)
(***************************************************************************)
\* The call just made was intercepted by the wrapper and opened the file in
\* one of the modes Python documents as writing, appending or exclusive
\* creation.
OpenedForWrite ==
    /\ last.op = "open"
    /\ log_active
    /\ last.opened
    /\ last.mode[1] \in {"w", "a", "x"}

TrackedWrite == OpenedForWrite \/ (last.op = "save_output" /\ last.written)

\* C1: while auto logging is enabled, every write-mode open() leaves a
\* metadata sidecar '<path>.metadata.json' that is a JSON record with the key
\* 'script_path'.
C1_MetadataSidecarWritten ==
    OpenedForWrite =>
        /\ metafiles[last.out].kind = "dict"
        /\ metafiles[last.out].sp_kind # "missing"

\* C2: after a tracked write whose calling script exists on disk, a script
\* copy exists at '<output>.script' and holds the calling script's content at
\* the time of the write.
C2_ScriptCopyWritten ==
    (TrackedWrite /\ ~last.raised /\ Exists(last.script_text)) =>
        sidecars[<<last.out, SuffixScript>>] = last.script_text


\* The open just made was in plain read mode ("r", "rb", "rt").
OpenedForRead ==
    /\ last.op = "open"
    /\ log_active
    /\ last.opened
    /\ last.mode[1] = "r"
    /\ ~HasChar(last.mode, "+")

C5_SaveOutputMetadataExists ==
    (last.op = "save_output" /\ last.returned) =>
        /\ last.written
        /\ metafiles[last.out].kind = "dict"
        /\ metafiles[last.out].sp_kind = "string"
        /\ metafiles[last.out].script_path = last.calling

\* C6: recording never disturbs the user's write: when the underlying open
\* of an intercepted write-mode call succeeds the wrapper returns the handle,
\* and save_output raises nothing once the output has been written.
C6_RecordingNeverRaises ==
    /\ OpenedForWrite => (last.handle /\ ~last.raised)
    /\ (last.op = "save_output" /\ last.written) => ~last.raised

RECURSIVE SumSizes(_, _)
SumSizes(files, stat) ==
    IF files = <<>> THEN 0
    ELSE stat[Head(files)].size + SumSizes(Tail(files), stat)

\* C7: the limits given to configure cap the dependency list of every
\* archive a tracked write builds afterwards: at most
\* local_imports_max_files files under deps/, of at most
\* local_imports_max_bytes bytes in total.
C7_ConfiguredLimitsCapArchive ==
    (TrackedWrite /\ last.dest # None) =>
        /\ Len(archives[last.dest].deps) <= cfg.local_imports_max_files
        /\ SumSizes(archives[last.dest].deps, dep_stat) <= cfg.local_imports_max_bytes


\* The archive the tracked call just made built.
ArchiveBuilt == TrackedWrite /\ last.dest # None /\ archives[last.dest].present

\* C8 as claimed: every archive bundle produced for a tracked write contains
\* both metadata.json and the script snapshot of the calling script, under
\* every combination of configure() flags with archiving enabled.
C8_ArchiveHoldsMetadataAndSnapshot ==
    ArchiveBuilt =>
        /\ archives[last.dest].metadata.present
        /\ archives[last.dest].script.arcname # "none"

\* C8 as amended: an archive bundle produced for a tracked write contains
\* metadata.json exactly when metadata is configured on, with the calling
\* script as its script_path; it contains a snapshot entry exactly when a
\* snapshot sidecar ('<output>.script.py', else '<output>.script') exists
\* next to the output as the archive is written and adding it to the zip
\* does not fail, and the entry then holds that sidecar's content.
C8_ArchiveHoldsWhatIsEnabled ==
    ArchiveBuilt =>
        LET a == archives[last.dest]
            py == sidecars[<<last.out, SuffixScriptPy>>]
            raw == sidecars[<<last.out, SuffixScript>>]
        IN  /\ a.metadata.present <=> cfg.write_metadata
            /\ a.metadata.present => a.metadata.script_path = last.calling
            /\ (a.script.arcname # "none") <=>
                   ((Exists(py) \/ Exists(raw)) /\ last.fault # "zip_write")
            /\ a.script.arcname = "script.py" => (Exists(py) /\ a.script.text = py)
            /\ a.script.arcname = "script.script" =>
                   (~Exists(py) /\ Exists(raw) /\ a.script.text = raw)

\* An archive holding both metadata.json and the fresh snapshot of the
\* calling script.
C8_Witness ==
    /\ ArchiveBuilt
    /\ archives[last.dest].metadata.present
    /\ archives[last.dest].script.arcname = "script.py"
    /\ archives[last.dest].script.text = last.script_text


\* A frame that can count as the caller: its file is not the library's own
\* file nor a pseudo-file such as <stdin>, and its absolute path neither
\* starts with the interpreter's prefix (the standard library) nor contains
\* 'site-packages'.
Eligible(raw) ==
    /\ raw # TrackerFile
    /\ ~StartsWith(raw, <<"<">>)
    /\ ~StartsWith(AbsPath(raw), BasePrefix)
    /\ ~Contains(AbsPath(raw), "site-packages")

\* C4 as claimed: caller identification returns the absolute path of the
\* innermost frame outside the library and outside the standard-library and
\* site-packages locations.
C4_InnermostUserFrame ==
    caller_done =>
        \A i \in 1..Len(stack) :
            (Eligible(stack[i]) /\ \A j \in 1..(i - 1) : ~Eligible(stack[j]))
                => found = AbsPath(stack[i])

\* C4 as amended: caller identification returns the absolute path of the
\* outermost frame (the first found walking inward from the program's entry
\* point) whose file is neither the library's own file nor a pseudo-file
\* '<...>' and whose absolute path neither starts with the interpreter's
\* prefix nor contains 'site-packages', and None when there is no such
\* frame; so a write made inside a site-packages module is never attributed
\* to that module.
C4_OutermostUserFrame ==
    caller_done =>
        /\ \A i \in 1..Len(stack) :
               (Eligible(stack[i]) /\ \A j \in (i + 1)..Len(stack) : ~Eligible(stack[j]))
                   => found = AbsPath(stack[i])
        /\ (\A i \in 1..Len(stack) : ~Eligible(stack[i])) => found = None
        /\ ~Contains(found, "site-packages")

\* A write inside a site-packages module, called from a helper module, called
\* from the user's script: attributed to the script.
C4_Witness ==
    /\ caller_done
    /\ stack = LibFramesOpen \o <<SiteFile, UserHelper, RelMain>>
    /\ found = UserMain

\* C9: the lookup prefers '<file>.script.py', then '<file>.script', then the
\* script_path of a readable '<file>.metadata.json' if that path exists, and
\* has no target otherwise; unreadable or malformed metadata gives no target
\* (exit code 3), not an error.
C9_SidecarPreference ==
    (lookup_done /\ OutputExists(outputs[OutA])) =>
        LET py == Exists(sidecars[<<OutA, SuffixScriptPy>>])
            raw == Exists(sidecars[<<OutA, SuffixScript>>])
            m == metafiles[OutA]
            usable == /\ m.kind = "dict"
                      /\ m.sp_kind = "string"
                      /\ Exists(ScriptText(scripts, m.script_path))
        IN  /\ py => target.kind = "snapshot_py"
            /\ (~py /\ raw) => target.kind = "snapshot"
            /\ (~py /\ ~raw /\ usable) =>
                   target = [kind |-> "script_path", path |-> m.script_path]
            /\ (~py /\ ~raw /\ ~usable) => (target = NoTarget /\ exit_code = 3)
            /\ target # NoTarget => exit_code \in {0, 4}

\* Malformed metadata and no snapshot: no target, exit code 3.
C9_Witness ==
    /\ lookup_done
    /\ OutputExists(outputs[OutA])
    /\ metafiles[OutA].kind = "malformed"
    /\ target = NoTarget
    /\ exit_code = 3

\* The candidates of the archive call and what it added.
Candidates == SelectLocalImports(sys_modules, ArchiveRoots)
AddedDeps == archives[ArchiveDest(OutA, now)].deps
InSeq(x, q) == \E i \in 1..Len(q) : q[i] = x
AddedBefore(i) ==
    SelectSeq(SubSeq(Candidates, 1, i - 1), LAMBDA f : InSeq(f, AddedDeps))
\* Candidate i, whose size can be read, would break a limit on top of what
\* was added before it.
Breaks(i) ==
    /\ dep_stat[Candidates[i]].size >= 0
    /\ \/ Len(AddedBefore(i)) >= arg_max_files
       \/ SumSizes(AddedBefore(i), dep_stat) + dep_stat[Candidates[i]].size
              > arg_max_bytes

\* C10: build_archive_for_output adds at most max_files dependency files, of
\* at most max_bytes bytes in total, and adds no candidate from the first one
\* on that would break either limit.
C10_DepsCapped ==
    built =>
        /\ Len(AddedDeps) <= arg_max_files
        /\ SumSizes(AddedDeps, dep_stat) <= arg_max_bytes
        /\ \A f \in 1..Len(AddedDeps) : InSeq(AddedDeps[f], Candidates)
        /\ \A i \in 1..Len(Candidates) :
               Breaks(i) => \A j \in i..Len(Candidates) :
                                ~InSeq(Candidates[j], AddedDeps)

\* The first candidate is too big, a later one would have fit and is left
\* out.
C10_Witness ==
    /\ built
    /\ Len(Candidates) >= 2
    /\ Breaks(1)
    /\ arg_max_files >= 1
    /\ dep_stat[Candidates[2]].size >= 0
    /\ dep_stat[Candidates[2]].readable
    /\ dep_stat[Candidates[2]].size <= arg_max_bytes
    /\ AddedDeps = <<>>

\* The last call among enable_auto_logging and disable_auto_logging.
LastToggle == IF toggle_log = <<>> THEN "none" ELSE toggle_log[Len(toggle_log)]

\* C12: after any sequence of enable_auto_logging and disable_auto_logging
\* calls, interception is active exactly when the last call was
\* enable_auto_logging, builtins.open is the wrapper exactly when
\* interception is active and the original open otherwise (so one disable
\* undoes any number of enables), and a write-mode open is then recorded
\* exactly when the last call was enable_auto_logging.
C12_ToggleFollowsLastCall ==
    /\ log_active <=> LastToggle = "enable"
    /\ builtins_open = IF log_active THEN "logging" ELSE "original"
    /\ (last.op = "open" /\ last.opened /\ IsWriteMode(last.mode)) =>
           (last.recordings = 1 <=> LastToggle = "enable")
    /\ (last.op = "open" /\ last.opened /\ LastToggle # "enable") =>
           last.recordings = 0

\* Two enables, one disable, then a write-mode open that went straight to
\* the original open.
C12_Witness ==
    /\ toggle_log = <<"enable", "enable", "disable">>
    /\ builtins_open = "original"
    /\ ~log_active
    /\ last.op = "open"
    /\ last.opened
    /\ last.mode = <<"w">>
    /\ last.recordings = 0

C13_OneRecordingPerWrite ==
    /\ \A t \in DOMAIN th :
           /\ (th[t].opened /\ IsWriteMode(th[t].mode)) => th[t].recorded = 1
           /\ ~IsWriteMode(th[t].mode) => th[t].recorded = 0
           /\ th[t].pc \in {"idle", "record", "snap", "archive"} => ~skip_logging
    /\ nested = 0

\* A first write whose snapshot copy failed part-way (its tmp file is left
\* behind), then a second write-mode open, recorded once.
C13_Witness ==
    /\ th["t1"].opens = 2
    /\ th["t1"].file = OutB
    /\ th["t1"].mode = <<"w">>
    /\ th["t1"].recorded = 1
    /\ th["t1"].pc = "idle"
    /\ sidecars[CopyTarget(OutA)] = Partial
    /\ Exists(sidecars[SnapshotPath(OutB)])
    /\ ~skip_logging

\* C14: with auto logging enabled and two threads opening files for writing,
\* every write-mode open that succeeds is recorded, whatever the other thread
\* is doing.
C14_EveryWriteRecorded ==
    \A t \in DOMAIN th :
        (th[t].opened /\ IsWriteMode(th[t].mode)) => th[t].recorded = 1

\* C15: each tracked write gets its own archive bundle: the archive built
\* for an earlier write is still there, with the content it was built with,
\* after every later write (also one in the same clock second, or to a
\* same-named output in another directory).
C15_EarlierArchiveKept ==
    \A i \in 1..Len(build_log) :
        /\ archives[build_log[i].dest].present
        /\ archives[build_log[i].dest] = build_log[i].content

=============================================================================
